---- MODULE Spec2Model ----
(***************************************************************************)
(* Blueprint parsing (FromArgs) and rendering (BuildCommandArgs) of the    *)
(* studio command blueprint package.                                       *)
(*                                                                         *)
(* A Go string is a sequence of one-character strings, so that the regular *)
(* expressions, strings.ReplaceAll and strings.TrimSpace are computed      *)
(* character by character.  Sequences are 1-based: args[1] is Go's         *)
(* args[0] (the base command) and the loops start at 2 where Go's start    *)
(* at 1.  template.argIndex keeps Go's 0-based value.                      *)
(***************************************************************************)
EXTENDS Integers, Sequences, FiniteSets

VARIABLES args, pc, bp, i, descriptionParts, properties, required, params, result

vars == <<args, pc, bp, i, descriptionParts, properties, required, params, result>>

\* Largest number of words after the base command in an argument vector.
MaxArgs == 2

-----------------------------------------------------------------------------
(* Characters and strings *)

LB == <<"{", "{">>
RB == <<"}", "}">>
Dots == <<".", ".", ".">>

\* The empty Go string, also the zero value of a string field.
EmptyString == <<>>

\* strings.TrimSpace: the whitespace of the modelled alphabet is the blank.
RECURSIVE TrimLeft(_)
TrimLeft(s) ==
  IF s # <<>> /\ Head(s) = " " THEN TrimLeft(Tail(s)) ELSE s

RECURSIVE TrimRight(_)
TrimRight(s) ==
  IF s # <<>> /\ s[Len(s)] = " " THEN TrimRight(SubSeq(s, 1, Len(s) - 1)) ELSE s

TrimSpace(s) == TrimRight(TrimLeft(s))

\* Whether old occurs in s at position p.
HasAt(s, p, old) ==
  /\ p + Len(old) - 1 <= Len(s)
  /\ \A k \in 1..Len(old) : s[p + k - 1] = old[k]

\* strings.ReplaceAll(s, old, new) for a non-empty old: the non-overlapping
\* occurrences of old, found left to right, are replaced by new.
RECURSIVE ReplaceAll(_, _, _)
ReplaceAll(s, old, new) ==
  IF Len(s) < Len(old) THEN s
  ELSE IF HasAt(s, 1, old)
       THEN new \o ReplaceAll(SubSeq(s, Len(old) + 1, Len(s)), old, new)
       ELSE <<Head(s)>> \o ReplaceAll(Tail(s), old, new)

\* strings.ReplaceAll(s, "-", "_")
ReplaceHyphens(s) == [k \in 1..Len(s) |-> IF s[k] = "-" THEN "_" ELSE s[k]]

\* strings.Join(parts, sep)
RECURSIVE Join(_, _)
Join(parts, sep) ==
  IF parts = <<>> THEN <<>>
  ELSE IF Len(parts) = 1 THEN parts[1]
  ELSE parts[1] \o sep \o Join(Tail(parts), sep)

\* contains(slice, item)
contains(slice, item) == \E k \in 1..Len(slice) : slice[k] = item

-----------------------------------------------------------------------------
(* The two regular expressions *)

\* The end of a greedy run [^stop]* that starts at p: the first position at or
\* after p that holds a character of stop, or Len(s) + 1.  A shorter run is
\* followed by a character outside stop, which none of the two expressions
\* accepts next, so backtracking never yields another match.
RunEnd(s, p, stop) ==
  CHOOSE q \in p..(Len(s) + 1) :
    /\ q = Len(s) + 1 \/ s[q] \in stop
    /\ \A r \in p..(q - 1) : s[r] \notin stop

NoMatch == [ok |-> FALSE]

\* templateRegex \{\{([^#}]+)(?:#([^}]+))?\}\} tried at position p.  A match
\* holds the matched text (match[0]), the two groups (match[1], match[2], the
\* latter empty when the group takes no part) and the matched span.
templateMatchAt(s, p) ==
  IF ~HasAt(s, p, LB) THEN NoMatch
  ELSE
    LET q == RunEnd(s, p + 2, {"#", "}"})
    IN IF q = p + 2 THEN NoMatch
       ELSE IF HasAt(s, q, RB)
            THEN [ok |-> TRUE, start |-> p, stop |-> q + 1,
                  full |-> SubSeq(s, p, q + 1),
                  name |-> SubSeq(s, p + 2, q - 1), desc |-> EmptyString]
       ELSE IF HasAt(s, q, <<"#">>)
            THEN LET r == RunEnd(s, q + 1, {"}"})
                 IN IF r > q + 1 /\ HasAt(s, r, RB)
                    THEN [ok |-> TRUE, start |-> p, stop |-> r + 1,
                          full |-> SubSeq(s, p, r + 1),
                          name |-> SubSeq(s, p + 2, q - 1),
                          desc |-> SubSeq(s, q + 1, r - 1)]
                    ELSE NoMatch
       ELSE NoMatch

\* templateRegex.FindAllStringSubmatch(s, -1) from position p on: the leftmost
\* match, then the matches after its end.
RECURSIVE FindAllFrom(_, _)
FindAllFrom(s, p) ==
  IF p > Len(s) THEN <<>>
  ELSE LET m == templateMatchAt(s, p)
       IN IF m.ok THEN <<m>> \o FindAllFrom(s, m.stop + 1)
          ELSE FindAllFrom(s, p + 1)

templateRegex(s) == FindAllFrom(s, 1)

\* optionalRegex ^\[([^.\]]+)(\.\.\.)?]$ on the whole word: matches[1] is
\* name, and dots says whether matches[2] is "...".
optionalRegex(s) ==
  IF ~HasAt(s, 1, <<"[">>) THEN NoMatch
  ELSE
    LET q == RunEnd(s, 2, {".", "]"})
        rest == SubSeq(s, q, Len(s))
    IN IF q = 2 THEN NoMatch
       ELSE IF rest = <<"]">>
            THEN [ok |-> TRUE, name |-> SubSeq(s, 2, q - 1), dots |-> FALSE]
       ELSE IF rest = Dots \o <<"]">>
            THEN [ok |-> TRUE, name |-> SubSeq(s, 2, q - 1), dots |-> TRUE]
       ELSE NoMatch

\* ReplaceAllString that writes the name without the spaces around it.
RECURSIVE ReplaceAllStringTrimmed(_, _, _)
ReplaceAllStringTrimmed(arg, matches, from) ==
  IF matches = <<>> THEN SubSeq(arg, from, Len(arg))
  ELSE LET m == Head(matches)
       IN SubSeq(arg, from, m.start - 1) \o LB \o TrimSpace(m.name) \o RB
          \o ReplaceAllStringTrimmed(arg, Tail(matches), m.stop + 1)

\* templateRegex.ReplaceAllString(arg, "{{$1}}"): every matched span becomes
\* "{{" + match[1] + "}}", the text between the spans is copied.
RECURSIVE ReplaceAllString(_, _, _)
ReplaceAllString(arg, matches, from) ==
  IF matches = <<>> THEN SubSeq(arg, from, Len(arg))
  ELSE LET m == Head(matches)
       IN SubSeq(arg, from, m.start - 1) \o LB \o m.name \o RB
          \o ReplaceAllString(arg, Tail(matches), m.stop + 1)

-----------------------------------------------------------------------------
(* jsonschema.Schema, template, Blueprint *)

\* A property schema; Items is the type of the items of an array ("" is nil),
\* Description the empty string when there is none.
StringSchema(description) ==
  [Type |-> "string", Items |-> "", Description |-> description]

ArrayDescription ==
  <<"A","d","d","i","t","i","o","n","a","l"," ","c","o","m","m","a","n","d",
    " ","l","i","n","e"," ","a","r","g","u","m","e","n","t","s">>

ArraySchema ==
  [Type |-> "array", Items |-> "string", Description |-> ArrayDescription]

\* SetProperty that also creates an implicit property args.
SetPropertyImplicitArgs(props, varName, prop) ==
  [n \in DOMAIN props \cup {varName, <<"a", "r", "g", "s">>} |->
     IF n = varName THEN prop
     ELSE IF n \in DOMAIN props THEN props[n]
     ELSE [Type |-> "array", Items |-> "string", Description |-> EmptyString]]

\* properties[varName] = prop
SetProperty(props, varName, prop) ==
  [n \in DOMAIN props \cup {varName} |-> IF n = varName THEN prop ELSE props[n]]

NoProperties == [n \in {} |-> ArraySchema]

\* The Blueprint literal FromArgs starts from: the zero values, the arguments,
\* an object schema with an empty properties map and no required list.
NewBlueprint(a) ==
  [BaseCommand |-> EmptyString, ToolName |-> EmptyString,
   ToolDescription |-> EmptyString,
   InputSchema |-> [Type |-> "object", Properties |-> NoProperties,
                    Required |-> <<>>],
   args |-> a, templates |-> <<>>]

\* The backquote character, which a TLA+ string cannot hold.
Backquote == "BACKQUOTE"

DescriptionPrefix ==
  <<"R","u","n"," ","t","h","e"," ","s","h","e","l","l"," ",
    "c","o","m","m","a","n","d"," ",Backquote>>

-----------------------------------------------------------------------------
(* FromArgs: one word of the loop *)

\* The body of the loop over the matches of one word, from match k on, on the
\* local state st = [properties, required, templates].
\* ParseMatches in which a marker with a description only updates the
\* description of a property that exists and keeps its type.
RECURSIVE ParseMatchesKeepType(_, _, _, _)
ParseMatchesKeepType(st, idx, matches, k) ==
  IF k > Len(matches) THEN st
  ELSE
    LET match == matches[k]
        varName == ReplaceHyphens(TrimSpace(match.name))
        description == IF match.desc # EmptyString THEN TrimSpace(match.desc)
                       ELSE EmptyString
        exists == varName \in DOMAIN st.properties
        props == IF ~exists
                 THEN SetProperty(st.properties, varName, StringSchema(description))
                 ELSE IF description # EmptyString
                 THEN SetProperty(st.properties, varName,
                        [st.properties[varName] EXCEPT !.Description = description])
                 ELSE st.properties
        req == IF ~contains(st.required, varName)
               THEN Append(st.required, varName) ELSE st.required
        tmpl == [argIndex |-> idx - 1, name |-> varName,
                 description |-> description, isArray |-> FALSE,
                 isOptional |-> FALSE]
    IN ParseMatchesKeepType([properties |-> props, required |-> req,
                             templates |-> Append(st.templates, tmpl)],
                            idx, matches, k + 1)

\* ParseMatches in which a marker without a description clears the description
\* recorded for its name.
RECURSIVE ParseMatchesClearing(_, _, _, _)
ParseMatchesClearing(st, idx, matches, k) ==
  IF k > Len(matches) THEN st
  ELSE
    LET match == matches[k]
        varName == ReplaceHyphens(TrimSpace(match.name))
        description == IF match.desc # EmptyString THEN TrimSpace(match.desc)
                       ELSE EmptyString
        req == IF ~contains(st.required, varName)
               THEN Append(st.required, varName) ELSE st.required
        tmpl == [argIndex |-> idx - 1, name |-> varName,
                 description |-> description, isArray |-> FALSE,
                 isOptional |-> FALSE]
    IN ParseMatchesClearing(
         [properties |-> SetProperty(st.properties, varName,
                                     StringSchema(description)),
          required |-> req,
          templates |-> Append(st.templates, tmpl)],
         idx, matches, k + 1)

RECURSIVE ParseMatches(_, _, _, _)
ParseMatches(st, idx, matches, k) ==
  IF k > Len(matches) THEN st
  ELSE
    LET match == matches[k]
        varName == ReplaceHyphens(TrimSpace(match.name))
        description == IF match.desc # EmptyString THEN TrimSpace(match.desc)
                       ELSE EmptyString
        exists == varName \in DOMAIN st.properties
        props == IF ~exists \/ description # EmptyString
                 THEN SetProperty(st.properties, varName, StringSchema(description))
                 ELSE IF exists /\ description # EmptyString
                 THEN SetProperty(st.properties, varName,
                        [st.properties[varName] EXCEPT !.Description = description])
                 ELSE st.properties
        req == IF ~contains(st.required, varName)
               THEN Append(st.required, varName) ELSE st.required
        tmpl == [argIndex |-> idx - 1, name |-> varName,
                 description |-> description, isArray |-> FALSE,
                 isOptional |-> FALSE]
    IN ParseMatches([properties |-> props, required |-> req,
                     templates |-> Append(st.templates, tmpl)],
                    idx, matches, k + 1)

\* OptionalRequired that lists the name of every optional word.
OptionalRequiredAlways(req, varName, isArray) == Append(req, varName)

\* The required list after a word [name] or [name...]: only the array word
\* appends its name, and it appends without looking for the name.
OptionalRequired(req, varName, isArray) ==
  IF isArray THEN Append(req, varName) ELSE req

\* OptionalProperty that types the array word as a string.
OptionalPropertyString(isArray) ==
  IF isArray THEN StringSchema(ArrayDescription) ELSE StringSchema(EmptyString)

\* The property a word [name] or [name...] writes under its name.
OptionalProperty(isArray) ==
  IF isArray THEN ArraySchema ELSE StringSchema(EmptyString)

\* The body of the loop of FromArgs for the word args[idx], on the local state
\* st = [properties, required, templates, descriptionParts].
ParseWord(st, idx, arg) ==
  LET om == optionalRegex(arg)
  IN IF om.ok
     THEN
       LET varName == ReplaceHyphens(om.name)
           isArray == om.dots
           tmpl == [argIndex |-> idx - 1, name |-> varName,
                    description |-> IF isArray THEN ArrayDescription ELSE EmptyString,
                    isArray |-> isArray, isOptional |-> TRUE]
       IN [properties |-> SetProperty(st.properties, varName,
                                      OptionalProperty(isArray)),
           required |-> OptionalRequired(st.required, varName, isArray),
           descriptionParts |->
              Append(st.descriptionParts,
                     IF isArray THEN <<"[">> \o varName \o Dots \o <<"]">>
                     ELSE <<"[">> \o varName \o <<"]">>),
           templates |-> Append(st.templates, tmpl)]
     ELSE
       LET matches == templateRegex(arg)
           after == ParseMatches([properties |-> st.properties,
                                  required |-> st.required,
                                  templates |-> st.templates], idx, matches, 1)
           processedArg == IF Len(matches) > 0
                           THEN ReplaceAllString(arg, matches, 1) ELSE arg
       IN [properties |-> after.properties,
           required |-> after.required,
           descriptionParts |-> Append(st.descriptionParts, processedArg),
           templates |-> after.templates]

-----------------------------------------------------------------------------
(* BuildCommandArgs: one word of the loop *)

\* skipArgs := make(map[int]bool): nothing is ever put into it.
skipArgs == {}

\* value.(string)
IsString(ps, varName) == varName \in DOMAIN ps /\ ps[varName].kind = "string"

\* What a word [name...] appends: the []string as it is, the string items of a
\* []interface{}, nothing for any other value or no value.
RECURSIVE StringItemsOf(_)
StringItemsOf(arr) ==
  IF arr = <<>> THEN <<>>
  ELSE IF Head(arr).kind = "string"
       THEN <<Head(arr).str>> \o StringItemsOf(Tail(arr))
       ELSE StringItemsOf(Tail(arr))

\* ArrayExpansion without the skip of the items that are no strings: such an
\* item becomes an empty argument.
RECURSIVE AllItemsOf(_)
AllItemsOf(arr) ==
  IF arr = <<>> THEN <<>>
  ELSE <<IF Head(arr).kind = "string" THEN Head(arr).str ELSE EmptyString>>
       \o AllItemsOf(Tail(arr))

ArrayExpansionNoSkip(ps, varName) ==
  IF varName \in DOMAIN ps
  THEN LET values == ps[varName]
       IN IF values.kind = "[]string" /\ Len(values.arr) > 0 THEN values.arr
          ELSE IF values.kind = "[]interface{}" /\ Len(values.arr) > 0
               THEN AllItemsOf(values.arr)
          ELSE <<>>
  ELSE <<>>

ArrayExpansion(ps, varName) ==
  IF varName \in DOMAIN ps
  THEN LET values == ps[varName]
       IN IF values.kind = "[]string" /\ Len(values.arr) > 0 THEN values.arr
          ELSE IF values.kind = "[]interface{}" /\ Len(values.arr) > 0
               THEN StringItemsOf(values.arr)
          ELSE <<>>
  ELSE <<>>

\* OptionalString without the test for the empty string.
OptionalStringKeepEmpty(ps, varName) ==
  IF varName \in DOMAIN ps
  THEN LET value == ps[varName]
       IN IF value.kind = "string" THEN <<value.str>> ELSE <<>>
  ELSE <<>>

\* What a word [name] appends: the non-empty string bound to the name.
OptionalString(ps, varName) ==
  IF varName \in DOMAIN ps
  THEN LET value == ps[varName]
       IN IF value.kind = "string" /\ value.str # EmptyString
          THEN <<value.str>> ELSE <<>>
  ELSE <<>>

\* The key a marker is looked up under.
TemplateVarName(match) == ReplaceHyphens(TrimSpace(match.name))

\* The loop over the matches of a word, from match k on: every occurrence of
\* the matched text in the word processed so far is replaced by the string
\* bound to the name.
RECURSIVE ReplaceTemplates(_, _, _, _)
ReplaceTemplates(processedArg, matches, k, ps) ==
  IF k > Len(matches) THEN processedArg
  ELSE
    LET match == matches[k]
        varName == TemplateVarName(match)
    IN IF IsString(ps, varName)
       THEN ReplaceTemplates(ReplaceAll(processedArg, match.full, ps[varName].str),
                             matches, k + 1, ps)
       ELSE ReplaceTemplates(processedArg, matches, k + 1, ps)

\* RenderWord that, as for a word [name], appends no empty string for a
\* literal or mixed word.
RenderWordDropEmpty(arg, ps) ==
  LET om == optionalRegex(arg)
      processedArg == ReplaceTemplates(arg, templateRegex(arg), 1, ps)
  IN IF om.ok
     THEN LET varName == ReplaceHyphens(om.name)
          IN IF om.dots THEN ArrayExpansion(ps, varName)
             ELSE OptionalString(ps, varName)
     ELSE IF processedArg = EmptyString THEN <<>> ELSE <<processedArg>>

\* What the loop of BuildCommandArgs appends to result for the word arg.
RenderWord(arg, ps) ==
  LET om == optionalRegex(arg)
  IN IF om.ok
     THEN LET varName == ReplaceHyphens(om.name)
          IN IF om.dots THEN ArrayExpansion(ps, varName)
             ELSE OptionalString(ps, varName)
     ELSE <<ReplaceTemplates(arg, templateRegex(arg), 1, ps)>>

-----------------------------------------------------------------------------
(* Inputs *)

\* The base command, "s-c".
BaseWord == <<"s", "-", "c">>

\* The words an argument vector is drawn from: literal, optional, array and
\* mixed words over the names a-b and a, with and without descriptions and
\* blanks, and words whose braces or brackets do not match the grammars.
Words ==
  { <<"-", "v">>,
    <<"[", "a", "-", "b", "]">>,
    <<"[", "a", "-", "b">> \o Dots \o <<"]">>,
    <<"[", "a", "]">>,
    LB \o <<"a", "-", "b">> \o RB,
    LB \o <<"a">> \o RB,
    LB \o <<"a", "-", "b", "#", "d">> \o RB,
    <<"x", " ">> \o LB \o <<" ", "a", "-", "b", " ", "#", " ", "e", " ">> \o RB,
    LB \o <<"a", "-", "b">> \o RB \o LB \o <<"a">> \o RB,
    LB \o LB \o <<"a">> \o RB \o LB \o <<"a">> \o RB,
    LB \o <<"a">> \o RB \o <<"-">> \o LB \o <<"a">> \o RB,
    LB \o <<"a", "-", "b", "#", "d">> \o RB \o LB \o <<"a", "-", "b">> \o RB,
    LB \o <<"a", "-", "b", "#", " ">> \o RB,
    LB \o <<" ">> \o RB,
    LB \o <<"a", "}">>,
    <<"[", "a", ".", "]">> }

\* The argument vectors: the empty one, and the base command followed by at
\* most MaxArgs words.
ArgVectors ==
  {<<>>} \cup
  UNION { { <<BaseWord>> \o ws : ws \in [1..n -> Words] } : n \in 0..MaxArgs }

\* Parameter values as the type switches of BuildCommandArgs see them.
StringValue(s) == [kind |-> "string", str |-> s]
StringSlice(a) == [kind |-> "[]string", arr |-> a]
GenericSlice(a) == [kind |-> "[]interface{}", arr |-> a]
OtherValue == [kind |-> "float64"]
NoValue == [kind |-> "absent"]

KeyAB == <<"a", "_", "b">>
KeyA == <<"a">>

ValuesAB ==
  { NoValue,
    StringValue(EmptyString),
    StringValue(<<"v", " ", "w">>),
    StringValue(LB \o <<"a">> \o RB),
    StringSlice(<<>>),
    StringSlice(<< <<"p">>, <<"q">> >>),
    GenericSlice(<< StringValue(<<"p">>), OtherValue, StringValue(<<"q">>) >>),
    OtherValue }

ValuesA == { NoValue, StringValue(<<"y">>) }

\* The map with KeyAB bound to vab and KeyA bound to va (NoValue: no entry).
MakeParams(vab, va) ==
  [n \in (IF vab = NoValue THEN {} ELSE {KeyAB})
         \cup (IF va = NoValue THEN {} ELSE {KeyA})
     |-> IF n = KeyAB THEN vab ELSE va]

ParamMaps == { MakeParams(vab, va) : vab \in ValuesAB, va \in ValuesA }

NoParams == MakeParams(NoValue, NoValue)

\* The natural example values of an argument vector: a marker's name bound to
\* the marker's text, a word [name] to the word, a word [name...] to the
\* one-element slice holding the word.
NaturalBindings(a) ==
  UNION { LET om == optionalRegex(a[k])
              ms == templateRegex(a[k])
          IN IF om.ok
             THEN { << ReplaceHyphens(om.name),
                       IF om.dots THEN StringSlice(<<a[k]>>)
                       ELSE StringValue(a[k]) >> }
             ELSE { << ReplaceHyphens(TrimSpace(ms[m].name)),
                       StringValue(ms[m].full) >> : m \in 1..Len(ms) }
          : k \in 2..Len(a) }

\* Whether every name has one natural value only.
NaturalDefined(a) ==
  \A b1 \in NaturalBindings(a) : \A b2 \in NaturalBindings(a) :
    b1[1] = b2[1] => b1[2] = b2[2]

NaturalParams(a) ==
  [n \in { b[1] : b \in NaturalBindings(a) }
     |-> (CHOOSE b \in NaturalBindings(a) : b[1] = n)[2]]

\* The parameter maps BuildCommandArgs is called with on a blueprint of a.
ParamChoices(a) ==
  ParamMaps \cup (IF NaturalDefined(a) THEN {NaturalParams(a)} ELSE {})

-----------------------------------------------------------------------------
(* The state machine *)

Init ==
  /\ args \in ArgVectors
  /\ pc = "start"
  /\ bp = NewBlueprint(<<>>)
  /\ i = 0
  /\ descriptionParts = <<>>
  /\ properties = NoProperties
  /\ required = <<>>
  /\ params = NoParams
  /\ result = <<>>

\* FromArgs up to its loop: the blueprint literal, the return for an empty
\* vector, the base command and tool name, the locals.
FromArgsEnter ==
  /\ pc = "start"
  /\ IF Len(args) = 0
     THEN /\ bp' = NewBlueprint(args)
          /\ pc' = "ready"
          /\ UNCHANGED <<i, descriptionParts, properties, required>>
     ELSE /\ bp' = [NewBlueprint(args) EXCEPT
                      !.BaseCommand = args[1],
                      !.ToolName = ReplaceHyphens(args[1])]
          /\ descriptionParts' = <<args[1]>>
          /\ properties' = NoProperties
          /\ required' = <<>>
          /\ i' = 2
          /\ pc' = "parse"
  /\ UNCHANGED <<args, params, result>>

\* One iteration of the loop of FromArgs.
FromArgsLoop ==
  /\ pc = "parse"
  /\ i <= Len(args)
  /\ LET st == ParseWord([properties |-> properties, required |-> required,
                          descriptionParts |-> descriptionParts,
                          templates |-> bp.templates], i, args[i])
     IN /\ properties' = st.properties
        /\ required' = st.required
        /\ descriptionParts' = st.descriptionParts
        /\ bp' = [bp EXCEPT !.templates = st.templates]
  /\ i' = i + 1
  /\ UNCHANGED <<args, pc, params, result>>

\* FromArgs after its loop: the description, the schema, the return.
FromArgsReturn ==
  /\ pc = "parse"
  /\ i > Len(args)
  /\ bp' = [bp EXCEPT
              !.ToolDescription =
                 DescriptionPrefix \o Join(descriptionParts, <<" ">>)
                 \o <<Backquote>>,
              !.InputSchema.Properties =
                 IF Cardinality(DOMAIN properties) > 0 THEN properties ELSE @,
              !.InputSchema.Required =
                 IF Len(required) > 0 THEN required ELSE @]
  /\ pc' = "ready"
  /\ UNCHANGED <<args, i, descriptionParts, properties, required, params, result>>

\* BuildCommandArgs up to its loop, on a constructed blueprint.
BuildCommandArgsEnter ==
  /\ pc \in {"ready", "done"}
  /\ \E p \in ParamChoices(args) : params' = p
  /\ result' = <<bp.BaseCommand>>
  /\ i' = 2
  /\ pc' = "render"
  /\ UNCHANGED <<args, bp, descriptionParts, properties, required>>

\* BuildCommandArgsLoop that stores the rendered word in the blueprint.
BuildCommandArgsLoopCaching ==
  /\ pc = "render"
  /\ i <= Len(bp.args)
  /\ result' = IF i \in skipArgs THEN result
               ELSE result \o RenderWord(bp.args[i], params)
  /\ bp' = [bp EXCEPT !.args[i] =
              IF Len(result') = Len(result) + 1 THEN result'[Len(result')]
              ELSE @]
  /\ i' = i + 1
  /\ UNCHANGED <<args, pc, descriptionParts, properties, required, params>>

\* One iteration of the loop of BuildCommandArgs.
BuildCommandArgsLoop ==
  /\ pc = "render"
  /\ i <= Len(bp.args)
  /\ result' = IF i \in skipArgs THEN result
               ELSE result \o RenderWord(bp.args[i], params)
  /\ i' = i + 1
  /\ UNCHANGED <<args, pc, bp, descriptionParts, properties, required, params>>

\* BuildCommandArgs returns result.
BuildCommandArgsReturn ==
  /\ pc = "render"
  /\ i > Len(bp.args)
  /\ pc' = "done"
  /\ UNCHANGED <<args, bp, i, descriptionParts, properties, required, params, result>>

Next ==
  \/ FromArgsEnter
  \/ FromArgsLoop
  \/ FromArgsReturn
  \/ BuildCommandArgsEnter
  \/ BuildCommandArgsLoop
  \/ BuildCommandArgsReturn

Spec == Init /\ [][Next]_vars

-----------------------------------------------------------------------------
(* Vocabulary of the properties *)

\* A word [name] or [name...], and the name it is looked up under.
IsOptionalWord(w) == optionalRegex(w).ok
IsArrayWord(w) == optionalRegex(w).ok /\ optionalRegex(w).dots
IsPlainOptionalWord(w) == optionalRegex(w).ok /\ ~optionalRegex(w).dots
OptionalName(w) == ReplaceHyphens(optionalRegex(w).name)

\* The markers of a literal or mixed word, and the name of a marker.
Markers(w) == IF IsOptionalWord(w) THEN <<>> ELSE templateRegex(w)
MarkerName(m) == ReplaceHyphens(TrimSpace(m.name))

\* FromArgs has returned; BuildCommandArgs has returned.
Constructed == pc \in {"ready", "render", "done"}
Rendered == pc = "done"

\* A step that is one iteration of the loop of BuildCommandArgs, on the word
\* args[i].
RenderStep == pc = "render" /\ pc' = "render" /\ i <= Len(args) /\ i' = i + 1

\* The word with the k-th and later marker spans replaced by texts[k], ..., the
\* text outside the spans copied from position from on.
RECURSIVE SpliceFrom(_, _, _, _, _)
SpliceFrom(w, ms, texts, k, from) ==
  IF k > Len(ms) THEN SubSeq(w, from, Len(w))
  ELSE SubSeq(w, from, ms[k].start - 1) \o texts[k]
       \o SpliceFrom(w, ms, texts, k + 1, ms[k].stop + 1)

Splice(w, ms, texts) == SpliceFrom(w, ms, texts, 1, 1)

\* The text a marker stands for under ps: the string bound to its name, or the
\* marker itself.
SpanText(m, ps) ==
  IF MarkerName(m) \in DOMAIN ps /\ ps[MarkerName(m)].kind = "string"
  THEN ps[MarkerName(m)].str ELSE m.full

\* ps without an entry for the name n.
Without(ps, n) == [x \in DOMAIN ps \ {n} |-> ps[x]]

-----------------------------------------------------------------------------
(* C1, C2: round trip and identity *)

\* C1: for every argument vector whose placeholders have natural example
\* values (a marker's name bound to the marker's text, [name] to the word,
\* [name...] to the slice holding the word), BuildCommandArgs on
\* FromArgs(argv) with these values returns argv.
RoundTrip ==
  (Rendered /\ NaturalDefined(args) /\ params = NaturalParams(args))
    => result = args

\* No word after the base command matches one of the two grammars.
NoPlaceholderSyntax(a) ==
  \A k \in 2..Len(a) : ~IsOptionalWord(a[k]) /\ templateRegex(a[k]) = <<>>

\* C2: for every argument vector without placeholder syntax, the empty vector
\* and the vector of a base command alone included, BuildCommandArgs with an
\* empty parameter map returns the vector.
IdentityLaw ==
  (Rendered /\ NoPlaceholderSyntax(args) /\ params = NoParams)
    => result = args

\* Both laws on the vectors that have a base command (how far they hold).
RoundTripNonEmpty == args # <<>> => RoundTrip
IdentityLawNonEmpty == args # <<>> => IdentityLaw

-----------------------------------------------------------------------------
(* C3, C4, C7: substitution in literal and mixed words *)

\* The entry a render step appended for a literal or mixed word.
Appended == result'[Len(result')]

\* The markers of w whose name is bound to a string.
BoundMarkers(w, ps) ==
  { k \in 1..Len(Markers(w)) :
      /\ MarkerName(Markers(w)[k]) \in DOMAIN ps
      /\ ps[MarkerName(Markers(w)[k])].kind = "string" }

\* The word with the spans of the field n replaced by its value and every other
\* span as it is rendered without that substitution.
FieldSubstituted(w, ps, n) ==
  Splice(w, Markers(w),
         [k \in 1..Len(Markers(w)) |->
            IF MarkerName(Markers(w)[k]) = n THEN ps[n].str
            ELSE SpanText(Markers(w)[k], Without(ps, n))])

\* C3: for every mixed word and every field of it bound to a string, the
\* rendered word has every span of the field replaced by the value, and the
\* literal text and the text of the other fields are as without it.
BoundFieldReplaced ==
  [][(RenderStep /\ ~IsOptionalWord(args[i]))
       => \A k \in BoundMarkers(args[i], params) :
            /\ Len(result') = Len(result) + 1
            /\ Appended = FieldSubstituted(args[i], params,
                                           MarkerName(Markers(args[i])[k]))]_vars

\* The word with every marker span replaced once by the text it stands for.
SpanRendered(w, ps) ==
  Splice(w, Markers(w),
         [k \in 1..Len(Markers(w)) |-> SpanText(Markers(w)[k], ps)])

\* C4: for every word and every parameter map, the rendered word is the word
\* with each bound marker span replaced once by its value: an inserted value
\* is not scanned again.
ValueInsertedLiterally ==
  [][(RenderStep /\ ~IsOptionalWord(args[i]))
       => /\ Len(result') = Len(result) + 1
          /\ Appended = SpanRendered(args[i], params)]_vars

\* The length of the texts that replace the markers before the k-th, and the
\* length of these markers.
RECURSIVE InsertedBefore(_, _, _)
InsertedBefore(ms, k, ps) ==
  IF k <= 1 THEN 0
  ELSE Len(SpanText(ms[k - 1], ps)) + InsertedBefore(ms, k - 1, ps)

RECURSIVE RemovedBefore(_, _)
RemovedBefore(ms, k) ==
  IF k <= 1 THEN 0 ELSE Len(ms[k - 1].full) + RemovedBefore(ms, k - 1)

\* Where the k-th marker span starts in the rendered word.
ImageStart(ms, k, ps) ==
  ms[k].start + InsertedBefore(ms, k, ps) - RemovedBefore(ms, k)

\* C7: for every marker whose name has no string value, the rendered word
\* holds the marker's span untouched, and the word is emitted as one entry.
UnboundSpanUntouched ==
  [][(RenderStep /\ ~IsOptionalWord(args[i]))
       => \A k \in (1..Len(Markers(args[i]))) \ BoundMarkers(args[i], params) :
            LET ms == Markers(args[i])
                at == ImageStart(ms, k, params)
            IN /\ Len(result') = Len(result) + 1
               /\ at + Len(ms[k].full) - 1 <= Len(Appended)
               /\ SubSeq(Appended, at, at + Len(ms[k].full) - 1) = ms[k].full]_vars

-----------------------------------------------------------------------------
(* C5, C6, C8: optional words and the order of the output *)

IsStringItem(x) == x.kind = "string"

\* The strings a value holds as a sequence: a []string, or the string items of
\* a []interface{}; none for any other value.
StringsOf(v) ==
  IF v.kind = "[]string" THEN v.arr
  ELSE IF v.kind = "[]interface{}"
       THEN LET items == SelectSeq(v.arr, IsStringItem)
            IN [k \in 1..Len(items) |-> items[k].str]
  ELSE <<>>

\* C5: a word [name...] contributes the string items of the sequence bound to
\* the normalized name, one entry each, in order: no entry when the name is
\* unbound, bound to an empty sequence or to no sequence, and the items that
\* are no strings are skipped.
ArrayWordEntries ==
  [][(RenderStep /\ IsArrayWord(args[i]))
       => result' = result \o (IF OptionalName(args[i]) \in DOMAIN params
                               THEN StringsOf(params[OptionalName(args[i])])
                               ELSE <<>>)]_vars

\* A word [a-b...] has expanded a generic slice of two strings around an item
\* that is no string.
ArrayWordEntriesWitness ==
  /\ pc = "render" /\ i = 3
  /\ IsArrayWord(args[2]) /\ OptionalName(args[2]) = KeyAB
  /\ KeyAB \in DOMAIN params /\ params[KeyAB].kind = "[]interface{}"
  /\ result = <<BaseWord, <<"p">>, <<"q">> >>

\* C6: a word [name] contributes one entry, the value, when the normalized
\* name is bound to a non-empty string, and nothing when the name is absent,
\* bound to the empty string or to a value that is no string.
OptionalWordEntry ==
  [][(RenderStep /\ IsPlainOptionalWord(args[i]))
       => LET n == OptionalName(args[i])
          IN result' = result \o
               (IF n \in DOMAIN params /\ params[n].kind = "string"
                   /\ params[n].str # EmptyString
                THEN <<params[n].str>> ELSE <<>>)]_vars

\* A word [a-b] has contributed the string bound to a_b as one entry.
OptionalWordEntryWitness ==
  /\ pc = "render" /\ i = 3
  /\ IsPlainOptionalWord(args[2]) /\ OptionalName(args[2]) = KeyAB
  /\ params = MakeParams(StringValue(<<"v", " ", "w">>), NoValue)
  /\ result = <<BaseWord, <<"v", " ", "w">> >>

\* C8: the output starts with the base command; every loop step appends the
\* contribution of the next word behind the contributions of the words before
\* it, one entry for a literal or mixed word (a word without markers as it is),
\* any number for an optional word; the result returned is the one built.
OutputOrder ==
  [][/\ (pc' = "render" /\ pc # "render")
          => result' = <<bp.BaseCommand>> /\ i' = 2
     /\ pc' \in {"render", "done"}
          => /\ Len(result') >= 1
             /\ result'[1] = bp'.BaseCommand
             /\ args # <<>> => result'[1] = args[1]
     /\ RenderStep
          => /\ Len(result') >= Len(result)
             /\ SubSeq(result', 1, Len(result)) = result
             /\ ~IsOptionalWord(args[i]) => Len(result') = Len(result) + 1
             /\ (~IsOptionalWord(args[i]) /\ Markers(args[i]) = <<>>)
                   => Appended = args[i]
     /\ (pc = "render" /\ pc' = "done")
          => result' = result /\ i > Len(args)]_vars

\* A vector of an array word and a literal word has been rendered: two entries
\* of the array, then the literal word.
OutputOrderWitness ==
  /\ Rendered /\ Len(args) = 3
  /\ IsArrayWord(args[2]) /\ ~IsOptionalWord(args[3]) /\ Markers(args[3]) = <<>>
  /\ result = <<BaseWord, <<"p">>, <<"q">>, args[3]>>

-----------------------------------------------------------------------------
(* C9, C10: optional words in the schema *)

Required == bp.InputSchema.Required
Properties == bp.InputSchema.Properties

\* The name n is the normalized name of a marker of the word w.
HasMarker(w, n) ==
  \E k \in 1..Len(Markers(w)) : MarkerName(Markers(w)[k]) = n

\* C9 as stated: the name of a word [name] is never in the required list.
OptionalNeverRequired ==
  Constructed =>
    \A k \in 2..Len(args) :
      IsPlainOptionalWord(args[k]) => ~contains(Required, OptionalName(args[k]))

\* C9, amended: the name of a word [name] is in the required list only when a
\* word [name...] or a marker of the vector has the same normalized name.
OptionalRequiredOnlyByOthers ==
  Constructed =>
    \A k \in 2..Len(args) :
      (IsPlainOptionalWord(args[k]) /\ contains(Required, OptionalName(args[k])))
        => \E j \in 2..Len(args) :
             \/ IsArrayWord(args[j]) /\ OptionalName(args[j]) = OptionalName(args[k])
             \/ HasMarker(args[j], OptionalName(args[k]))

\* A word [a-b] followed by a marker of the same name is constructed: the name
\* a_b of the optional word is required, through the marker.
OptionalRequiredWitness ==
  /\ pc = "ready" /\ Len(args) = 3
  /\ IsPlainOptionalWord(args[2]) /\ OptionalName(args[2]) = KeyAB
  /\ HasMarker(args[3], KeyAB)
  /\ Required = <<KeyAB>>

\* A word after position k that writes a string property under the name n: a
\* word [name], or a marker with a description.
OverwrittenAfter(a, k, n) ==
  \E j \in (k + 1)..Len(a) :
    \/ IsPlainOptionalWord(a[j]) /\ OptionalName(a[j]) = n
    \/ \E m \in 1..Len(Markers(a[j])) :
         /\ MarkerName(Markers(a[j])[m]) = n
         /\ TrimSpace(Markers(a[j])[m].desc) # EmptyString

IsArrayOfStrings(prop) == prop.Type = "array" /\ prop.Items = "string"

\* C10 as stated: for every word [name...] the schema has a property under the
\* normalized name typed as an array of strings, and the name is required.
ArrayWordSchema ==
  Constructed =>
    \A k \in 2..Len(args) :
      IsArrayWord(args[k])
        => /\ OptionalName(args[k]) \in DOMAIN Properties
           /\ IsArrayOfStrings(Properties[OptionalName(args[k])])
           /\ contains(Required, OptionalName(args[k]))

\* C10, amended: for every word [name...] the schema has a property under the
\* normalized name and the name is required; the property is typed as an array
\* of strings when no later word [name] and no later marker with a description
\* has the same normalized name.
ArrayWordSchemaUnlessOverwritten ==
  Constructed =>
    \A k \in 2..Len(args) :
      IsArrayWord(args[k])
        => LET n == OptionalName(args[k])
           IN /\ n \in DOMAIN Properties
              /\ contains(Required, n)
              /\ ~OverwrittenAfter(args, k, n) => IsArrayOfStrings(Properties[n])

\* A word [a-b...] followed by a marker of the same name without a description
\* is constructed: the property a_b is an array of strings and required.
ArrayWordSchemaWitness ==
  /\ pc = "ready" /\ Len(args) = 3
  /\ IsArrayWord(args[2]) /\ OptionalName(args[2]) = KeyAB
  /\ HasMarker(args[3], KeyAB) /\ ~OverwrittenAfter(args, 2, KeyAB)
  /\ IsArrayOfStrings(Properties[KeyAB])
  /\ contains(Required, KeyAB)

-----------------------------------------------------------------------------
(* C11: markers in the required list *)

\* FromArgs has just returned the blueprint.
FromArgsReturned == pc = "ready"

\* The marker occurrences of the vector a, <<word, marker>>, and the ones of
\* the name n.
MarkerOccurrences(a) ==
  { <<k, m>> \in (2..Len(a)) \X (1..12) : m <= Len(Markers(a[k])) }

OccurrencesOf(a, n) ==
  { o \in MarkerOccurrences(a) : MarkerName(Markers(a[o[1]])[o[2]]) = n }

MarkerNames(a) ==
  { MarkerName(Markers(a[o[1]])[o[2]]) : o \in MarkerOccurrences(a) }

\* The positions of the name n in a list.
PositionsOf(list, n) == { p \in 1..Len(list) : list[p] = n }

Least(S) == CHOOSE x \in S : \A y \in S : x <= y

\* Where the name n becomes required first: the first word that is [n...] or
\* holds a marker of n, and the marker's rank in it.
RequiredOccurrences(a, n) ==
  { o[1] * 100 + o[2] : o \in OccurrencesOf(a, n) }
  \cup { k * 100 : k \in { j \in 2..Len(a) :
                             IsArrayWord(a[j]) /\ OptionalName(a[j]) = n } }

\* C11: every name of a marker is in the required list, a name of two or more
\* markers has a single entry, and the names are in the order in which they
\* become required first.
MarkersRequiredOnce ==
  FromArgsReturned =>
    /\ \A n \in MarkerNames(args) :
         /\ contains(Required, n)
         /\ Cardinality(OccurrencesOf(args, n)) >= 2
              => Cardinality(PositionsOf(Required, n)) = 1
    /\ \A p \in 1..Len(Required) : \A q \in 1..Len(Required) :
         (/\ p = Least(PositionsOf(Required, Required[p]))
          /\ q = Least(PositionsOf(Required, Required[q]))
          /\ p < q)
           => Least(RequiredOccurrences(args, Required[p]))
                < Least(RequiredOccurrences(args, Required[q]))

\* The part of C11 that does not count the entries.
MarkersRequiredInOrder ==
  FromArgsReturned =>
    /\ \A n \in MarkerNames(args) : contains(Required, n)
    /\ \A p \in 1..Len(Required) : \A q \in 1..Len(Required) :
         (/\ p = Least(PositionsOf(Required, Required[p]))
          /\ q = Least(PositionsOf(Required, Required[q]))
          /\ p < q)
           => Least(RequiredOccurrences(args, Required[p]))
                < Least(RequiredOccurrences(args, Required[q]))

-----------------------------------------------------------------------------
(* C12: the description of a name that occurs in several markers *)

\* The description a marker supplies: the text after #, trimmed.
MarkerDescription(m) ==
  IF m.desc # EmptyString THEN TrimSpace(m.desc) ELSE EmptyString

Greatest(S) == CHOOSE x \in S : \A y \in S : y <= x

\* The occurrences of the name n that supply a non-empty description, as
\* word * 100 + marker.
DescribedOccurrences(a, n) ==
  { o[1] * 100 + o[2] : o \in
      { d \in OccurrencesOf(a, n) :
          MarkerDescription(Markers(a[d[1]])[d[2]]) # EmptyString } }

\* The description of the last occurrence of n that supplies one, or none.
LastDescription(a, n) ==
  IF DescribedOccurrences(a, n) = {} THEN EmptyString
  ELSE LET o == Greatest(DescribedOccurrences(a, n))
       IN MarkerDescription(Markers(a[o \div 100])[o % 100])

\* The words [n] and [n...] of the vector, as word * 100.
OptionalOccurrences(a, n) ==
  { k * 100 : k \in { j \in 2..Len(a) :
                        IsOptionalWord(a[j]) /\ OptionalName(a[j]) = n } }

\* The description that the last writer of the property n leaves: an optional
\* word of the name n that follows every describing marker, or else the last
\* describing marker.
LastWrittenDescription(a, n) ==
  LET writers == DescribedOccurrences(a, n) \cup OptionalOccurrences(a, n)
  IN IF writers = {} THEN EmptyString
     ELSE LET o == Greatest(writers)
          IN IF o % 100 = 0
             THEN (IF IsArrayWord(a[o \div 100]) THEN ArrayDescription
                   ELSE EmptyString)
             ELSE MarkerDescription(Markers(a[o \div 100])[o % 100])

SeveralTimes(a) ==
  { n \in MarkerNames(a) : Cardinality(OccurrencesOf(a, n)) >= 2 }

\* C12 as stated: the description of the property of a name that occurs in
\* several markers is the trimmed description of the last occurrence that
\* supplies a non-empty one, and there is none when no occurrence supplies one.
LastDescriptionWins ==
  FromArgsReturned =>
    \A n \in SeveralTimes(args) :
      /\ n \in DOMAIN Properties
      /\ Properties[n].Description = LastDescription(args, n)

\* C12 amended: the description of the property of a name that occurs in
\* several markers is the one left by the last word that writes it: the
\* trimmed description of the last occurrence that supplies a non-empty one,
\* unless a word [name] or [name...] of the same normalized name comes later,
\* and then the description that word registers; there is none when no
\* occurrence supplies one and the vector has no such optional word.
LastWriterDescriptionWins ==
  FromArgsReturned =>
    \A n \in SeveralTimes(args) :
      /\ n \in DOMAIN Properties
      /\ Properties[n].Description = LastWrittenDescription(args, n)
      /\ OptionalOccurrences(args, n) = {}
           => Properties[n].Description = LastDescription(args, n)

\* A name occurs in two markers, the first with a description and the last
\* without one, and the property keeps the description of the first.
LastWriterDescriptionWitness ==
  /\ FromArgsReturned
  /\ \E n \in SeveralTimes(args) :
       /\ OptionalOccurrences(args, n) = {}
       /\ DescribedOccurrences(args, n) # {}
       /\ \E o \in OccurrencesOf(args, n) :
            /\ o[1] * 100 + o[2] > Greatest(DescribedOccurrences(args, n))
            /\ MarkerDescription(Markers(args[o[1]])[o[2]]) = EmptyString
       /\ Properties[n].Description = <<"d">>

-----------------------------------------------------------------------------
(* C13: the display form of a mixed word *)

\* A mixed word: a word that is not an optional word and holds a marker.
IsMixedWord(w) == Len(Markers(w)) > 0

\* The display form FromArgs recorded for the word args[k].
DisplayForm(k) == descriptionParts[k]

\* {{normalizedName}} for every marker of the word.
NormalizedMarkers(w) ==
  [j \in 1..Len(Markers(w)) |-> LB \o MarkerName(Markers(w)[j]) \o RB]

\* {{name}} for every marker of the word, the name as it is written.
WrittenMarkers(w) ==
  [j \in 1..Len(Markers(w)) |-> LB \o Markers(w)[j].name \o RB]

\* C13 as stated: the display form of a mixed word is the word with every
\* marker span replaced by {{normalizedName}}, the rest untouched.
DisplayNormalized ==
  FromArgsReturned =>
    \A k \in 2..Len(args) :
      IsMixedWord(args[k])
        => DisplayForm(k) = Splice(args[k], Markers(args[k]),
                                   NormalizedMarkers(args[k]))

\* C13 amended: the display form of a mixed word is the word with every marker
\* span replaced by {{name}}, the name as it is written in the word (spaces
\* around it and hyphens kept, description stripped), the rest untouched; it
\* is {{normalizedName}} when every written name is already normalized.
DisplayAsWritten ==
  FromArgsReturned =>
    \A k \in 2..Len(args) :
      IsMixedWord(args[k])
        => /\ DisplayForm(k) = Splice(args[k], Markers(args[k]),
                                      WrittenMarkers(args[k]))
           /\ (\A j \in 1..Len(Markers(args[k])) :
                 Markers(args[k])[j].name = MarkerName(Markers(args[k])[j]))
                => DisplayForm(k) = Splice(args[k], Markers(args[k]),
                                           NormalizedMarkers(args[k]))

\* A mixed word with text before its marker, spaces around the name, a hyphen
\* in it and a description: the display form keeps the text, the spaces and
\* the hyphen and drops the description.
DisplayAsWrittenWitness ==
  /\ FromArgsReturned
  /\ Len(args) >= 2
  /\ args[2] = <<"x", " ">> \o LB \o <<" ", "a", "-", "b", " ", "#", " ", "e", " ">> \o RB
  /\ DisplayForm(2) = <<"x", " ">> \o LB \o <<" ", "a", "-", "b", " ">> \o RB

-----------------------------------------------------------------------------
(* C14: the tool description *)

\* The display form of a word: [name] or [name...] with the normalized name
\* for an optional word, the markers as {{name}} for a mixed word, the word
\* itself for a literal word.
DisplayOf(w) ==
  IF IsArrayWord(w) THEN <<"[">> \o OptionalName(w) \o Dots \o <<"]">>
  ELSE IF IsPlainOptionalWord(w) THEN <<"[">> \o OptionalName(w) \o <<"]">>
  ELSE Splice(w, Markers(w), WrittenMarkers(w))

\* The base command of a vector: its first word, the empty string for the
\* empty vector.
BaseCommandOf(a) == IF Len(a) = 0 THEN EmptyString ELSE a[1]

\* The description the claim gives for the vector a.
DescriptionOf(a) ==
  DescriptionPrefix
  \o Join(<<BaseCommandOf(a)>> \o [k \in 1..(Len(a) - 1) |-> DisplayOf(a[k + 1])],
          <<" ">>)
  \o <<Backquote>>

\* C14: for every argument vector, the empty one included, the tool description
\* is the prefix, the base command and the display forms of the words in their
\* order joined with single spaces, and a closing backquote.
ToolDescriptionForm ==
  FromArgsReturned => bp.ToolDescription = DescriptionOf(args)

\* C14 on the vectors that have a base command.
ToolDescriptionFormNonEmpty ==
  (FromArgsReturned /\ Len(args) > 0) => bp.ToolDescription = DescriptionOf(args)

-----------------------------------------------------------------------------
(* C15: the keys of the properties map *)

\* The normalized names of the optional words and of the markers of a vector.
OptionalNames(a) ==
  { OptionalName(a[k]) : k \in { j \in 2..Len(a) : IsOptionalWord(a[j]) } }

FieldNames(a) == OptionalNames(a) \cup MarkerNames(a)

\* A word that matches neither grammar.
IsLiteralWord(w) == ~IsOptionalWord(w) /\ Len(Markers(w)) = 0

\* C15: the keys of the properties map are exactly the normalized names of the
\* optional words and markers of the words after the base command, so a
\* literal word creates no property; with no field, properties is the empty
\* object and required is omitted.
PropertyKeysAreFieldNames ==
  FromArgsReturned =>
    /\ DOMAIN Properties = FieldNames(args)
    /\ FieldNames(args) = {}
         => Properties = NoProperties /\ Required = <<>>

\* A literal word followed by a word with a marker: the only key is the name
\* of the marker.
PropertyKeysWitness ==
  /\ FromArgsReturned
  /\ Len(args) = 3
  /\ IsLiteralWord(args[2])
  /\ HasMarker(args[3], KeyAB)
  /\ DOMAIN Properties = {KeyAB}

-----------------------------------------------------------------------------
(* C16: totality and degradation *)

\* What a call holds is well formed at every step, whatever the vector and the
\* parameter map are: the loop index stays within the vector, the blueprint
\* is a name, a description and a schema of string and array properties, the
\* output is a list of strings that starts with the base command.
WellFormed ==
  /\ pc \in {"parse", "render"} => i >= 2 /\ (i <= Len(args) + 1 \/ i = 2)
  /\ Constructed
       => /\ bp.BaseCommand \in Seq(STRING)
          /\ bp.ToolName \in Seq(STRING)
          /\ bp.ToolDescription \in Seq(STRING)
          /\ bp.InputSchema.Type = "object"
          /\ bp.InputSchema.Required \in Seq(Seq(STRING))
          /\ \A n \in DOMAIN bp.InputSchema.Properties :
               /\ n \in Seq(STRING)
               /\ bp.InputSchema.Properties[n].Type \in {"string", "array"}
               /\ bp.InputSchema.Properties[n].Description \in Seq(STRING)
  /\ pc \in {"render", "done"}
       => result \in Seq(Seq(STRING)) /\ Len(result) >= 1

\* A call in its loop takes the next word or, behind the last word, returns.
Progresses ==
  /\ pc = "start" => pc' \in {"parse", "ready"}
  /\ pc = "parse" => \/ pc' = "parse" /\ i <= Len(args) /\ i' = i + 1
                     \/ pc' = "ready" /\ i > Len(args)
  /\ pc = "render" => \/ pc' = "render" /\ i <= Len(args) /\ i' = i + 1
                      \/ pc' = "done" /\ i > Len(args)

\* The parameter of an optional word is missing or of the wrong type.
OptionalParameterMissing(w, ps) ==
  \/ OptionalName(w) \notin DOMAIN ps
  \/ IsPlainOptionalWord(w) /\ ps[OptionalName(w)].kind # "string"
  \/ IsArrayWord(w) /\ ps[OptionalName(w)].kind \notin {"[]string", "[]interface{}"}

\* Unmatched syntax is a literal word, in the description and in the output.
LiteralWordKept ==
  /\ (pc = "parse" /\ pc' = "parse" /\ IsLiteralWord(args[i]))
       => /\ descriptionParts' = Append(descriptionParts, args[i])
          /\ properties' = properties /\ required' = required
  /\ (RenderStep /\ IsLiteralWord(args[i])) => result' = Append(result, args[i])

\* A missing or mistyped optional parameter omits the word.
OptionalWordOmitted ==
  (RenderStep /\ IsOptionalWord(args[i])
     /\ OptionalParameterMissing(args[i], params)) => result' = result

\* A missing or mistyped required parameter leaves the text of its marker in
\* the rendered word.
MarkerPassesThrough ==
  (RenderStep /\ ~IsOptionalWord(args[i]))
    => \A k \in (1..Len(Markers(args[i]))) \ BoundMarkers(args[i], params) :
         LET ms == Markers(args[i])
             at == ImageStart(ms, k, params)
         IN /\ Len(result') = Len(result) + 1
            /\ at + Len(ms[k].full) - 1 <= Len(Appended)
            /\ SubSeq(Appended, at, at + Len(ms[k].full) - 1) = ms[k].full

\* The same for a word none of whose markers has a string value: the word
\* passes through as it is.
UnboundWordPassesThrough ==
  (RenderStep /\ ~IsOptionalWord(args[i])
     /\ BoundMarkers(args[i], params) = {}) => result' = Append(result, args[i])

\* C16: FromArgs and BuildCommandArgs are total over every vector and every
\* parameter map; unmatched syntax is a literal word, a missing or mistyped
\* optional parameter omits the word, a missing or mistyped required parameter
\* lets the text of the marker pass through.
TotalAndDegrading ==
  /\ []WellFormed
  /\ [][Progresses /\ LiteralWordKept /\ OptionalWordOmitted /\ MarkerPassesThrough]_vars

\* C16 with the pass-through of markers taken word by word.
TotalAndDegradingWordwise ==
  /\ []WellFormed
  /\ [][Progresses /\ LiteralWordKept /\ OptionalWordOmitted /\ UnboundWordPassesThrough]_vars

-----------------------------------------------------------------------------
(* C17: BuildCommandArgs changes neither the blueprint nor the parameters *)

\* What BuildCommandArgs returns for the blueprint b and the map ps when it runs
\* alone: the base command, then the contribution of every word in order.
RECURSIVE RenderAloneFrom(_, _, _)
RenderAloneFrom(b, ps, k) ==
  IF k > Len(b.args) THEN <<>>
  ELSE RenderWord(b.args[k], ps) \o RenderAloneFrom(b, ps, k + 1)

RenderAlone(b, ps) == <<b.BaseCommand>> \o RenderAloneFrom(b, ps, 2)

-----------------------------------------------------------------------------
(* C18: no name twice in the required list *)

\* C18: for every argument vector, the required list holds no name twice, also
\* when a word [name...] is repeated and when an array word and a marker have
\* the same normalized name, in either order.
RequiredHasNoDuplicates ==
  FromArgsReturned =>
    \A p \in 1..Len(Required) : \A q \in 1..Len(Required) :
      Required[p] = Required[q] => p = q

\* C18 for the vectors in which no word [name...] follows a word that made its
\* name required.
RequiredHasNoDuplicatesArrayFirst ==
  (FromArgsReturned
     /\ \A k \in 2..Len(args) :
          IsArrayWord(args[k])
            => \A j \in 2..(k - 1) :
                 /\ ~HasMarker(args[j], OptionalName(args[k]))
                 /\ ~(IsArrayWord(args[j])
                        /\ OptionalName(args[j]) = OptionalName(args[k])))
    => \A p \in 1..Len(Required) : \A q \in 1..Len(Required) :
         Required[p] = Required[q] => p = q

-----------------------------------------------------------------------------
(* C19: the type of the property of a marker's name *)

ArrayWordWritesLast(a, n) ==
  \E k \in 2..Len(a) :
    /\ IsArrayWord(a[k]) /\ OptionalName(a[k]) = n
    /\ ~OverwrittenAfter(a, k, n)

\* Every name of a marker has a property; it is of type string unless a word
\* [name...] of the same normalized name is the last to write it, and then it
\* is an array of strings.
MarkerPropertyTyped ==
  FromArgsReturned =>
    \A n \in MarkerNames(args) :
      /\ n \in DOMAIN Properties
      /\ IF ArrayWordWritesLast(args, n)
         THEN IsArrayOfStrings(Properties[n])
         ELSE Properties[n].Type = "string"

====
